---------------------------- MODULE Spec2Model ----------------------------
(***************************************************************************)
(* A model of the Cloudflare email-to-Telegram worker (src/src/worker.js): *)
(* the sliding-window rate limiter, the configuration validation, the       *)
(* Telegram transport client (sendTelegramMessage, sendTelegramDocument)    *)
(* and the email handler that drives them.                                  *)
(***************************************************************************)
EXTENDS Integers, Sequences, FiniteSets, TLC

VARIABLES
    now,             \* the value Date.now() returns (ms)
    rateLimitStore,  \* the module-level Map: identifier -> admission timestamps
    nTicks,          \* how often the clock has advanced (bounded)
    nChecks,         \* how many rate-limit checks were made (bounded)
    admitted,        \* history: every admitted timestamp per identifier, never purged
    lastCheck,       \* history: the most recent checkRateLimit call
    pc,              \* per invocation: where the email handler (or a direct caller) is
    env,             \* per invocation: the env argument (the two secrets)
    cleanedBody,     \* per invocation: the handler's local cleanedBody
    rawEmail,        \* per invocation: the handler's local rawEmail (code points)
    call,            \* per invocation: the transport call in progress or just finished
    obs,             \* per invocation, history: rejects, send calls, stream use
    rawInput,        \* the argument of the last extractEmailContent call
    extracted,       \* what that call returned
    textFn,          \* the text function applied ("none" before any)
    textArg,         \* its text argument, a sequence of characters
    textMax,         \* its maxLength argument (0 where it has none)
    textResult       \* what it returned

rateVars == <<now, rateLimitStore, nTicks, nChecks, admitted, lastCheck>>

handlerVars == <<pc, env, cleanedBody, rawEmail, call, obs>>

extractVars == <<rawInput, extracted>>

textVars == <<textFn, textArg, textMax, textResult>>

vars == <<now, rateLimitStore, nTicks, nChecks, admitted, lastCheck,
          pc, env, cleanedBody, rawEmail, call, obs, rawInput, extracted,
          textFn, textArg, textMax, textResult>>

-----------------------------------------------------------------------------
(* CONFIG, worker.js lines 19-26 *)

RATE_LIMIT_WINDOW == 60000

MAX_EMAILS_PER_WINDOW == 10

MAX_BODY_LENGTH == 4000

TELEGRAM_MESSAGE_LIMIT == 4096

(* Bounds of the model *)

MaxTicks == 2

MaxChecks == 12

NumProcs == 2

MaxTokenLen == 3

MaxChatLen == 2

\* invocation slots of one worker instance
Procs == 1..NumProcs

(* Sender identifiers; the last one is the handler's fallback for a missing header *)
Ids == {"a@x", "Unknown sender"}

(* Clock advances; two of them add up to the window, to less and to more *)
Deltas == {1, RATE_LIMIT_WINDOW - 1}

-----------------------------------------------------------------------------
(* checkRateLimit, worker.js lines 315-340 *)

\* the filter predicate of lines 321 and 331: ts > windowStart
InWindow(ts, windowStart) == ts > windowStart

Filter(timestamps, windowStart) ==
    SelectSeq(timestamps, LAMBDA ts : InWindow(ts, windowStart))

\* a sweep that filters every list but deletes no key
CleanOldEntriesKeepsKeys(store, windowStart) ==
    [k \in DOMAIN store |-> Filter(store[k], windowStart)]

\* lines 320-327: every key is filtered; a key whose list becomes empty is deleted
CleanOldEntries(store, windowStart) ==
    LET kept == {k \in DOMAIN store : Len(Filter(store[k], windowStart)) # 0}
    IN  [k \in kept |-> Filter(store[k], windowStart)]

\* a limiter that lets one request too many through (> instead of >=)
AtLimitOffByOne(n) == n > MAX_EMAILS_PER_WINDOW

\* line 333: recentRequests.length >= CONFIG.MAX_EMAILS_PER_WINDOW
AtLimit(n) == n >= MAX_EMAILS_PER_WINDOW

\* a limiter whose admission overwrites the identifier's list, as an update
\* computed from a stale copy of the Map would
checkRateLimitOverwrites(store, identifier, t) ==
    LET windowStart == t - RATE_LIMIT_WINDOW
        swept == CleanOldEntries(store, windowStart)
        requests == IF identifier \in DOMAIN swept THEN swept[identifier] ELSE <<>>
        recentRequests == Filter(requests, windowStart)
    IN  IF AtLimit(Len(recentRequests))
        THEN [store |-> swept, ok |-> FALSE]
        ELSE [store |-> [k \in DOMAIN swept \cup {identifier} |->
                            IF k = identifier THEN <<t>> ELSE swept[k]],
              ok |-> TRUE]

\* a limiter that also records the time of a rejected check
checkRateLimitRecordsRejected(store, identifier, t) ==
    LET windowStart == t - RATE_LIMIT_WINDOW
        swept == CleanOldEntries(store, windowStart)
        requests == IF identifier \in DOMAIN swept THEN swept[identifier] ELSE <<>>
        recentRequests == Filter(requests, windowStart)
    IN  [store |-> [k \in DOMAIN swept \cup {identifier} |->
                       IF k = identifier THEN Append(recentRequests, t)
                       ELSE swept[k]],
         ok |-> ~AtLimit(Len(recentRequests))]

\* a limiter whose rejected check takes the place of the oldest stored admission
checkRateLimitRenewsOnReject(store, identifier, t) ==
    LET windowStart == t - RATE_LIMIT_WINDOW
        swept == CleanOldEntries(store, windowStart)
        requests == IF identifier \in DOMAIN swept THEN swept[identifier] ELSE <<>>
        recentRequests == Filter(requests, windowStart)
    IN  IF AtLimit(Len(recentRequests))
        THEN [store |-> [swept EXCEPT ![identifier] = Append(Tail(recentRequests), t)],
              ok |-> FALSE]
        ELSE [store |-> [k \in DOMAIN swept \cup {identifier} |->
                            IF k = identifier THEN Append(recentRequests, t)
                            ELSE swept[k]],
              ok |-> TRUE]

\* a limiter that admits without recording the admission
checkRateLimitNoAppend(store, identifier, t) ==
    LET windowStart == t - RATE_LIMIT_WINDOW
        swept == CleanOldEntries(store, windowStart)
        requests == IF identifier \in DOMAIN swept THEN swept[identifier] ELSE <<>>
        recentRequests == Filter(requests, windowStart)
    IN  [store |-> swept, ok |-> ~AtLimit(Len(recentRequests))]

\* the whole function: the value returned and the Map it leaves behind
checkRateLimit(store, identifier, t) ==
    LET windowStart == t - RATE_LIMIT_WINDOW
        swept == CleanOldEntries(store, windowStart)
        requests == IF identifier \in DOMAIN swept THEN swept[identifier] ELSE <<>>
        recentRequests == Filter(requests, windowStart)
    IN  IF AtLimit(Len(recentRequests))
        THEN [store |-> swept, ok |-> FALSE]
        ELSE [store |-> [k \in DOMAIN swept \cup {identifier} |->
                            IF k = identifier THEN Append(recentRequests, t)
                            ELSE swept[k]],
              ok |-> TRUE]

-----------------------------------------------------------------------------
(* validateConfig, worker.js lines 347-364.  A secret is a sequence of      *)
(* characters; an unset secret and the empty string are both <<>> (falsy).  *)

Digits == {"7"}

\* [A-Za-z0-9_-]
TokenTail == Digits \cup {"k", "_", "-"}

TokenChars == TokenTail \cup {":", "!"}

ChatChars == {"@", "-", "7", "k"}

SeqsUpTo(S, n) == UNION {[1..k -> S] : k \in 0..n}

\* how many leading characters of s are digits: the greedy match of \d+
RECURSIVE DigitRun(_, _)
DigitRun(s, i) ==
    IF i <= Len(s) /\ s[i] \in Digits THEN DigitRun(s, i + 1) ELSE i - 1

\* line 352: /^\d+:[A-Za-z0-9_-]+$/.test(token)
TokenPattern(token) ==
    LET d == DigitRun(token, 1)
    IN  /\ d >= 1
        /\ Len(token) >= d + 2
        /\ token[d + 1] = ":"
        /\ \A i \in (d + 2)..Len(token) : token[i] \in TokenTail

\* line 356: if (!env.TELEGRAM_CHANNEL_ID)
ChannelIdMissing(chat) == chat = <<>>

\* a validation that forgets the TELEGRAM_CHANNEL_ID check
validateConfigNoChannel(e) ==
    LET errors ==
            IF e.token = <<>> THEN <<"TELEGRAM_BOT_TOKEN is required">>
            ELSE IF ~TokenPattern(e.token)
                 THEN <<"TELEGRAM_BOT_TOKEN format is invalid">>
                 ELSE <<>>
    IN  [errors |-> errors, isValid |-> Len(errors) = 0]

validateConfig(e) ==
    LET tokenErrors ==
            IF e.token = <<>> THEN <<"TELEGRAM_BOT_TOKEN is required">>
            ELSE IF ~TokenPattern(e.token)
                 THEN <<"TELEGRAM_BOT_TOKEN format is invalid">>
                 ELSE <<>>
        errors ==
            IF ChannelIdMissing(e.chat)
            THEN Append(tokenErrors, "TELEGRAM_CHANNEL_ID is required")
            ELSE tokenErrors
    IN  [errors |-> errors, isValid |-> Len(errors) = 0]

AllEnvs ==
    [token : SeqsUpTo(TokenChars, MaxTokenLen), chat : SeqsUpTo(ChatChars, MaxChatLen)]

GoodEnv == [token |-> <<"7", ":", "k">>, chat |-> <<"@", "k">>]

\* the environments the delivery pipeline is run with
PipelineEnvs ==
    { GoodEnv,
      [token |-> <<>>, chat |-> <<"@", "k">>],
      [token |-> <<"7", "k">>, chat |-> <<"-", "7">>],
      [token |-> <<"7", ":", "k">>, chat |-> <<>>] }

NoEnv == [token |-> <<>>, chat |-> <<>>]

-----------------------------------------------------------------------------
(* The transport's answers to one POST (fetch, then response.json())        *)

Responses ==
    { "ok",         \* HTTP 2xx, JSON body {ok: true}
      "okNoJson",   \* HTTP 2xx, body that is not JSON: response.json() rejects
      "e400parse",  \* error_code 400, description mentions parse_mode
      "e400",       \* error_code 400, another description
      "e403",
      "e404",
      "e500",
      "errNoJson",  \* HTTP error status, body that is not JSON
      "netErr" }    \* fetch itself rejects

\* the answers the delivery pipeline is run against: a success, a markup
\* rejection, a plain failure and a thrown fetch
PipelineResponses == {"ok", "e400parse", "e500", "netErr"}

\* the answers to its plain-text POST, of which only the status is read
PlainResponses == {"ok", "e500", "netErr"}

FetchThrows(r) == r = "netErr"

\* response.ok
HttpOk(r) == r \in {"ok", "okNoJson"}

JsonThrows(r) == r \in {"okNoJson", "errNoJson"}

\* responseData.error_code
ErrorCode(r) ==
    CASE r \in {"e400parse", "e400"} -> 400
      [] r = "e403" -> 403
      [] r = "e404" -> 404
      [] r = "e500" -> 500
      [] OTHER -> 0

\* responseData.description?.includes("parse_mode")
MentionsParseMode(r) == r = "e400parse"

(* Errors: what was thrown and the response it describes *)

NoErr == [type |-> "none", of |-> ""]

\* the rejection of fetch or of response.json(), rethrown as it is
NetworkError(r) == [type |-> "network", of |-> r]

\* line 442: `Telegram API error: ${description} (code: ${error_code})`
ApiError(r) == [type |-> "Telegram API error", of |-> r]

\* line 448: `Failed after ${maxRetries} attempts: ${description}`
FailedAfter(r) == [type |-> "Failed after 3 attempts", of |-> r]

StreamError(m) == [type |-> "stream", of |-> m]

(* Events of one transport call, in order *)

PostEv(markup, attempt) ==
    [r |-> "", markup |-> markup, attempt |-> attempt, ev |-> "post", ms |-> 0]

RespEv(r, attempt) ==
    [r |-> r, markup |-> FALSE, attempt |-> attempt, ev |-> "resp", ms |-> 0]

SleepEv(ms, attempt) ==
    [r |-> "", markup |-> FALSE, attempt |-> attempt, ev |-> "sleep", ms |-> ms]

-----------------------------------------------------------------------------
(* sendTelegramMessage, worker.js lines 374-470 *)

maxRetries == 3

\* a text is a sequence of characters; these are the ones trim() removes
WhiteSpace == {" ", "\n"}

\* a guard that only catches the empty string (!text)
IsBlankEmptyOnly(text) == text = <<>>

\* line 379: !text || text.trim().length === 0
IsBlank(text) == text = <<>> \/ \A i \in 1..Len(text) : text[i] \in WhiteSpace

NoCall ==
    [attempt |-> 0, text |-> <<>>, kind |-> "none", at |-> "none",
     responseData |-> "", trace |-> <<>>, result |-> "none", err |-> NoErr]

\* the call from its entry to its first await (or its early return)
sendTelegramMessage(kind, text) ==
    IF IsBlank(text)
    THEN [NoCall EXCEPT !.kind = kind, !.text = text, !.at = "returned",
                        !.result = "false"]
    ELSE [NoCall EXCEPT !.kind = kind, !.text = text, !.at = "post", !.attempt = 1,
                        !.result = "pending", !.trace = <<PostEv(TRUE, 1)>>]

Returns(c) == [c EXCEPT !.at = "returned", !.result = "true"]

Throws(c, e) == [c EXCEPT !.at = "returned", !.result = "threw", !.err = e]

\* a backoff that grows linearly: attempt * 1000 ms
BackoffLinear(c) ==
    [c EXCEPT !.at = "sleep",
              !.trace = Append(@, SleepEv(c.attempt * 1000, c.attempt))]

\* lines 454 and 463: await setTimeout(Math.pow(2, attempt) * 1000)
Backoff(c) ==
    [c EXCEPT !.at = "sleep",
              !.trace = Append(@, SleepEv((2 ^ c.attempt) * 1000, c.attempt))]

\* a catch block that gives up quietly after the last attempt, so that the
\* loop ends and line 469 returns false
CatchBlockSwallow(c, e) ==
    IF c.attempt = maxRetries
    THEN [c EXCEPT !.at = "returned", !.result = "false"]
    ELSE Backoff(c)

\* lines 457-466: the catch block of the attempt, which also receives what
\* the try block itself throws at lines 442 and 448
CatchBlock(c, e) ==
    IF c.attempt = maxRetries THEN Throws(c, e) ELSE Backoff(c)

\* lines 440-456, with responseData the parsed body of the markup POST
AfterErrorResponse(c) ==
    IF ErrorCode(c.responseData) \in {404, 403}
    THEN CatchBlock(c, ApiError(c.responseData))
    ELSE IF c.attempt = maxRetries
         THEN CatchBlock(c, FailedAfter(c.responseData))
         ELSE Backoff(c)

\* a fallback taken on every error_code 400
NeedsPlainFallbackAny400(r) == ErrorCode(r) = 400

\* lines 419-422: the condition of the plain-text fallback
NeedsPlainFallback(r) == ErrorCode(r) = 400 /\ MentionsParseMode(r)

\* lines 400-438: the answer to the markup POST has arrived
OnResponse(c, r) ==
    LET c1 == [c EXCEPT !.trace = Append(@, RespEv(r, c.attempt))]
    IN  IF FetchThrows(r) \/ JsonThrows(r) THEN CatchBlock(c1, NetworkError(r))
        ELSE IF HttpOk(r) THEN Returns(c1)
        ELSE LET c2 == [c1 EXCEPT !.responseData = r]
             IN  IF NeedsPlainFallback(r)
                 THEN [c2 EXCEPT !.at = "plainPost",
                                 !.trace = Append(@, PostEv(FALSE, c.attempt))]
                 ELSE AfterErrorResponse(c2)

\* lines 426-438: the answer to the plain-text POST has arrived (its body is
\* never read)
OnPlainResponse(c, r) ==
    LET c1 == [c EXCEPT !.trace = Append(@, RespEv(r, c.attempt))]
    IN  IF FetchThrows(r) THEN CatchBlock(c1, NetworkError(r))
        ELSE IF HttpOk(r) THEN Returns(c1)
        ELSE AfterErrorResponse(c1)

\* line 384: the loop's next iteration, up to its fetch
NextAttempt(c) ==
    [c EXCEPT !.at = "post", !.attempt = c.attempt + 1,
              !.trace = Append(@, PostEv(TRUE, c.attempt + 1))]

(* sendTelegramDocument, worker.js lines 481-505 *)

\* the call up to its fetch; text holds the bytes of the file
sendTelegramDocument(file) ==
    [NoCall EXCEPT !.kind = "doc", !.text = file, !.at = "docPost", !.attempt = 1,
                   !.result = "pending", !.trace = <<PostEv(FALSE, 1)>>]

\* a document send that tries once more after an error response
OnDocumentResponseRetry(c, r) ==
    LET c1 == [c EXCEPT !.trace = Append(@, RespEv(r, c.attempt))]
    IN  IF FetchThrows(r) THEN Throws(c1, NetworkError(r))
        ELSE IF HttpOk(r) THEN Returns(c1)
        ELSE IF c.attempt = 1
             THEN [c1 EXCEPT !.attempt = 2, !.trace = Append(@, PostEv(FALSE, 2))]
             ELSE Throws(c1, ApiError(r))

\* lines 490-504: the answer to the single POST has arrived
OnDocumentResponse(c, r) ==
    LET c1 == [c EXCEPT !.trace = Append(@, RespEv(r, c.attempt))]
    IN  IF FetchThrows(r) THEN Throws(c1, NetworkError(r))
        ELSE IF HttpOk(r) THEN Returns(c1)
        ELSE IF JsonThrows(r) THEN Throws(c1, NetworkError(r))
        ELSE Throws(c1, ApiError(r))

-----------------------------------------------------------------------------
(* extractEmailContent, worker.js lines 65-160.  A raw email is the list of  *)
(* pieces that split(`--${boundary}`) yields: the header block with the      *)
(* preamble, the parts, the epilogue.  A piece is its lines before the first *)
(* blank line (headers), whether there is a blank line (sep), and the lines  *)
(* after it (body).  A line is a header name, a value and a parameter after  *)
(* a semicolon ("" when the line has no semicolon); a line of text has the   *)
(* name "".                                                                   *)

Line(name, value, params) == [name |-> name, value |-> value, params |-> params]

Text(t) == <<Line("", t, "")>>

Piece(headers, sep, body) == [headers |-> headers, sep |-> sep, body |-> body]

\* the header block of a multipart message
TopHeaders ==
    Piece(<<Line("Content-Type", "multipart/alternative", "boundary")>>, TRUE, <<>>)

Epilogue == Piece(Text("--"), FALSE, <<>>)

EmptyPiece == Piece(<<>>, FALSE, <<>>)

\* the parts and single-part messages the extraction is run on
Pieces ==
    { Piece(<<Line("Content-Type", "text/plain", "charset")>>, TRUE, Text("plain")),
      Piece(<<Line("Content-type", "text/plain", "charset")>>, TRUE, Text("lower")),
      Piece(<<Line("Content-Type", "text/html", "charset")>>, TRUE, Text("html")),
      Piece(<<Line("Content-Type", "text/html", "charset")>>, TRUE,
            <<Line("Content-Type", "text/plain", "")>>),
      Piece(<<Line("Content-Type", "text/csv", "charset")>>, TRUE, Text("csv")),
      Piece(<<Line("Content-Type", "image/png", "name")>>, TRUE, Text("png")),
      Piece(<<Line("Content-Type", "text/plain", ""),
              Line("Content-Transfer-Encoding", "base64", "")>>, TRUE, Text("b64")),
      Piece(<<Line("Subject", "hi", ""),
              Line("Content-Type", "text/html", "")>>, TRUE, Text("last")),
      Piece(<<Line("Subject", "hi", "")>>, TRUE, Text("bare")),
      Piece(<<Line("Content-Type", "text/plain", "charset")>>, FALSE, <<>>) }

MaxParts == 2

\* multipart messages, and messages that are one piece (or nothing at all)
Mails ==
    [preamble : {TopHeaders}, parts : SeqsUpTo(Pieces, MaxParts)]
        \cup [preamble : Pieces \cup {EmptyPiece}, parts : {<<>>}]

NoMail == [preamble |-> EmptyPiece, parts |-> <<>>]

AllLines(piece) == piece.headers \o piece.body

\* line 79: rawEmail.split(`--${boundary}`)
Split(mail) == <<mail.preamble>> \o mail.parts \o <<Epilogue>>

\* line 71: /boundary=["']?([^"'\s]+)["']?/i finds a boundary in the raw text
HasBoundary(mail) ==
    \E i \in 1..Len(AllLines(mail.preamble)) :
        AllLines(mail.preamble)[i].params = "boundary"

\* part.includes("Content-Type: " + prefix): the text is looked for in the
\* whole piece, with this spelling of the header name
Includes(piece, values) ==
    \E i \in 1..Len(AllLines(piece)) :
        /\ AllLines(piece)[i].name = "Content-Type"
        /\ AllLines(piece)[i].value \in values

TextTypes == {"text/plain", "text/html", "text/csv"}

\* lines 129-134
getPartScore(part) ==
    IF Includes(part, {"text/plain"}) THEN 3
    ELSE IF Includes(part, {"text/html"}) THEN 2
    ELSE IF Includes(part, TextTypes) THEN 1
    ELSE 0

\* the names that /Content-Type:/i matches
IsContentTypeName(name) == name \in {"Content-Type", "Content-type"}

\* the first header line that /Content-Type:/i matches (0 when none does)
RECURSIVE FirstContentType(_, _)
FirstContentType(headers, i) ==
    IF i > Len(headers) THEN 0
    ELSE IF IsContentTypeName(headers[i].name) THEN i
    ELSE FirstContentType(headers, i + 1)

\* what ([^;]+) captures from line i on: the class also matches line breaks,
\* so the capture runs on over the following lines, up to the first semicolon
\* or the end of the headers
RECURSIVE RunOn(_, _)
RunOn(headers, i) ==
    IF i > Len(headers) THEN <<>>
    ELSE IF headers[i].params # "" THEN <<Line(headers[i].name, headers[i].value, "")>>
    ELSE <<headers[i]>> \o RunOn(headers, i + 1)

\* lines 115-116 and 153-154: the value after the header name and the lines
\* the capture ran on over, or the default
ContentTypeOf(headers) ==
    LET i == FirstContentType(headers, 1)
    IN  IF i = 0 THEN [type |-> "text/plain", runOn |-> <<>>]
        ELSE [type |-> headers[i].value,
              runOn |-> IF headers[i].params # "" THEN <<>>
                        ELSE RunOn(headers, i + 1)]

PlainResult(t) ==
    [body |-> Text(t), contentType |-> [type |-> "text/plain", runOn |-> <<>>]]

\* lines 141-160 (the body before it is decoded)
extractPartContent(part) ==
    IF ~part.sep THEN PlainResult("Invalid part format")
    ELSE [body |-> part.body, contentType |-> ContentTypeOf(part.headers)]

\* lines 103-122 (the body before it is decoded)
extractSimpleEmailBody(piece) ==
    IF ~piece.sep THEN PlainResult("No body content found")
    ELSE [body |-> piece.body, contentType |-> ContentTypeOf(piece.headers)]

\* lines 82-91: the index of bestPart after pieces 1..n (0 for null)
RECURSIVE BestPart(_, _)
BestPart(parts, n) ==
    IF n = 0 THEN [index |-> 0, score |-> 0]
    ELSE LET best == BestPart(parts, n - 1)
         IN  IF getPartScore(parts[n]) > best.score
             THEN [index |-> n, score |-> getPartScore(parts[n])]
             ELSE best

\* lines 65-96
extractEmailContent(mail) ==
    IF mail.preamble = EmptyPiece /\ mail.parts = <<>>
    THEN PlainResult("Invalid email content")
    ELSE IF ~HasBoundary(mail) THEN extractSimpleEmailBody(mail.preamble)
    ELSE LET parts == Split(mail)
             best == BestPart(parts, Len(parts))
         IN  IF best.index = 0 THEN PlainResult("No readable content found")
             ELSE extractPartContent(parts[best.index])

NoResult == PlainResult("")

-----------------------------------------------------------------------------
(* escapeMarkdownV2 and cleanText, worker.js lines 232-308.  A text is a     *)
(* sequence of UTF-16 code units, each a one-character string; a code unit   *)
(* outside ASCII, a quote and a backtick are written by number, "U+00C3".   *)

RECURSIVE Concat(_, _, _)
\* pieces[lo] \o ... \o pieces[hi]
Concat(pieces, lo, hi) ==
    IF lo > hi THEN <<>>
    ELSE IF lo = hi THEN pieces[lo]
    ELSE LET mid == (lo + hi) \div 2
         IN  Concat(pieces, lo, mid) \o Concat(pieces, mid + 1, hi)

\* the literal pattern occurs in s at position i
StartsAt(s, pattern, i) ==
    /\ i + Len(pattern) - 1 <= Len(s)
    /\ \A k \in 1..Len(pattern) : s[i + k - 1] = pattern[k]

\* s.replaceAll(pattern, replacement) and s.replace(/pattern/g, replacement)
\* for a literal pattern whose occurrences cannot overlap (one character, or
\* two different ones): every occurrence is replaced, the rest is kept
ReplaceAll(s, pattern, replacement) ==
    LET hits == {i \in 1..Len(s) : StartsAt(s, pattern, i)}
        pieces == [i \in 1..Len(s) |->
                      IF i \in hits THEN replacement
                      ELSE IF \E k \in 1..(Len(pattern) - 1) : (i - k) \in hits
                           THEN <<>>
                           ELSE <<s[i]>>]
    IN  IF hits = {} THEN s ELSE Concat(pieces, 1, Len(s))

\* line 276: .replace(/\n{3,}/g, "\n\n"): of a run of line feeds the first
\* two are kept
CollapseBlankLines(s) ==
    LET third(i) == i > 2 /\ s[i] = "\n" /\ s[i - 1] = "\n" /\ s[i - 2] = "\n"
        pieces == [i \in 1..Len(s) |-> IF third(i) THEN <<>> ELSE <<s[i]>>]
    IN  IF \A i \in 1..Len(s) : ~third(i) THEN s ELSE Concat(pieces, 1, Len(s))

\* the white space String.prototype.trim removes, as far as texts here have it
JsWhiteSpace == WhiteSpace \cup {"\r", "\t"}

\* s.trim()
Trim(s) ==
    IF \A i \in 1..Len(s) : s[i] \in JsWhiteSpace THEN <<>>
    ELSE LET n == Len(s)
             first == CHOOSE i \in 1..n :
                         /\ s[i] \notin JsWhiteSpace
                         /\ \A j \in 1..(i - 1) : s[j] \in JsWhiteSpace
             back == CHOOSE k \in 0..(n - 1) :
                         /\ s[n - k] \notin JsWhiteSpace
                         /\ \A j \in (n - k + 1)..n : s[j] \in JsWhiteSpace
         IN  SubSeq(s, first, n - back)

\* lines 235-254
specialChars ==
    << "_", "*", "[", "]", "(", ")", "~", "U+0060", ">", "#", "+", "-", "=", "|",
       "{", "}", ".", "!" >>

RECURSIVE EscapeFrom(_, _)
\* lines 257-259: the forEach from the n-th special character on
EscapeFrom(s, n) ==
    IF n > Len(specialChars) THEN s
    ELSE EscapeFrom(ReplaceAll(s, <<specialChars[n]>>, <<"\\", specialChars[n]>>),
                    n + 1)

escapeMarkdownV2(text) == IF text = <<>> THEN <<>> ELSE EscapeFrom(text, 1)

\* lines 278-298: the patterns and their replacements, in the order applied
EncodingFixes ==
    << << <<"U+00E2", "U+00AF">>, <<" ">> >>,
       << <<"U+00C3", "U+00A9">>, <<"U+00E9">> >>,
       << <<"U+00C3", " ">>, <<"U+00E0">> >>,
       << <<"U+00C3", "U+00A8">>, <<"U+00E8">> >>,
       << <<"U+00C3", "U+00B9">>, <<"U+00F9">> >>,
       << <<"U+00C3", "U+00A7">>, <<"U+00E7">> >>,
       << <<"U+00C3", "U+00B4">>, <<"U+00F4">> >>,
       << <<"U+00C3", "U+00AE">>, <<"U+00EE">> >>,
       << <<"U+00C3", "U+00A2">>, <<"U+00E2">> >>,
       << <<"U+00C3", "U+00AB">>, <<"U+00EB">> >>,
       << <<"U+00C3", "U+00AF">>, <<"U+00EF">> >>,
       << <<"U+00C3", "U+00BC">>, <<"U+00FC">> >>,
       << <<"U+00C3", "U+00B6">>, <<"U+00F6">> >>,
       << <<"U+00C3", "U+00A4">>, <<"U+00E4">> >>,
       << <<"U+00C3">>, <<"U+00C0">> >>,
       << <<"U+00E2">>, <<"U+0027">> >>,
       << <<"U+00E2">>, <<"U+0027">> >>,
       << <<"U+00E2">>, <<"U+0022">> >>,
       << <<"U+00E2">>, <<"U+0022">> >>,
       << <<"U+00E2">>, <<"U+2014">> >>,
       << <<"U+00E2">>, <<"U+2013">> >> >>

RECURSIVE ApplyFixes(_, _)
ApplyFixes(s, n) ==
    IF n > Len(EncodingFixes) THEN s
    ELSE ApplyFixes(ReplaceAll(s, EncodingFixes[n][1], EncodingFixes[n][2]), n + 1)

\* lines 273-299: the chain of replacements and the trim
Cleaned(text) ==
    LET unix == ReplaceAll(ReplaceAll(text, <<"\r", "\n">>, <<"\n">>),
                           <<"\r">>, <<"\n">>)
    IN  Trim(ApplyFixes(CollapseBlankLines(unix), 1))

\* line 304: "...\n\n", the down-arrow emoji (a surrogate pair) and the note
TruncationMarker ==
    << ".", ".", ".", "\n", "\n", "U+D83D", "U+DD3D", " ", "*", "F", "u",
       "l", "l", " ", "c", "o", "n", "t", "e", "n", "t", " ", "a", "v",
       "a", "i", "l", "a", "b", "l", "e", " ", "i", "n", " ", "a", "t",
       "t", "a", "c", "h", "e", "d", " ", "f", "i", "l", "e", "*" >>

\* a truncation that keeps one character too many
cleanTextOneMore(text, maxLength) ==
    IF text = <<>> THEN <<>>
    ELSE LET cleaned == Cleaned(text)
         IN  IF Len(cleaned) > maxLength
             THEN SubSeq(cleaned, 1, maxLength + 1) \o TruncationMarker
             ELSE cleaned

cleanText(text, maxLength) ==
    IF text = <<>> THEN <<>>
    ELSE LET cleaned == Cleaned(text)
         IN  IF Len(cleaned) > maxLength
             THEN SubSeq(cleaned, 1, maxLength) \o TruncationMarker
             ELSE cleaned

\* line 603: the heading of the body message
bodyHeading ==
    << "*", "U+D83D", "U+DCC4", " ", "E", "m", "a", "i", "l", " ", "C",
       "o", "n", "t", "e", "n", "t", ":", "*", "\n", "\n" >>

SentinelText ==
    << "N", "o", " ", "r", "e", "a", "d", "a", "b", "l", "e", " ", "c",
       "o", "n", "t", "e", "n", "t", " ", "f", "o", "u", "n", "d" >>

\* lines 577 and 602-605: the text of the body message made from the
\* extracted body, <<>> when no body message is sent
bodyMessageText(readableBody) ==
    LET cleaned == cleanText(readableBody, MAX_BODY_LENGTH)
    IN  IF cleaned # <<>> /\ Trim(cleaned) # SentinelText
        THEN bodyHeading \o escapeMarkdownV2(cleaned)
        ELSE <<>>

-----------------------------------------------------------------------------
(* Initial state: an empty Map, no event being handled *)

NoCheck == [ok |-> FALSE, at |-> -1, id |-> "", before |-> <<>>]

\* effects: the reject calls ("reject") and the send calls entered (their
\* kind), in the order the handler made them; stream: what became of
\* message.raw ("none", "missing", "reading", "read", "failed"); raw: the bytes
\* the stream delivered
NoObs ==
    [rejects |-> <<>>, effects |-> <<>>, finished |-> <<>>, stream |-> "none",
     raw |-> <<>>]

Init ==
    /\ now = 0
    /\ rateLimitStore = <<>>
    /\ nTicks = 0
    /\ nChecks = 0
    /\ admitted = [i \in Ids |-> <<>>]
    /\ lastCheck = NoCheck
    /\ pc = [p \in Procs |-> "idle"]
    /\ env = [p \in Procs |-> NoEnv]
    /\ cleanedBody = [p \in Procs |-> ""]
    /\ rawEmail = [p \in Procs |-> <<>>]
    /\ call = [p \in Procs |-> NoCall]
    /\ obs = [p \in Procs |-> NoObs]
    /\ rawInput = NoMail
    /\ extracted = NoResult
    /\ textFn = "none"
    /\ textArg = <<>>
    /\ textMax = 0
    /\ textResult = <<>>

-----------------------------------------------------------------------------
(* The clock and the rate limiter *)

\* Date.now() moves on by d ms
Tick(d) ==
    /\ nTicks < MaxTicks
    /\ now' = now + d
    /\ nTicks' = nTicks + 1
    /\ UNCHANGED <<rateLimitStore, nChecks, admitted, lastCheck, handlerVars, extractVars, textVars>>

\* the bookkeeping of one checkRateLimit(identifier) call made at the current time
RecordCheck(identifier, r) ==
    /\ rateLimitStore' = r.store
    /\ nChecks' = nChecks + 1
    /\ admitted' = IF r.ok THEN [admitted EXCEPT ![identifier] = Append(@, now)]
                   ELSE admitted
    /\ lastCheck' = [ok |-> r.ok, at |-> now, id |-> identifier,
                     before |-> rateLimitStore]

Check(identifier) ==
    /\ nChecks < MaxChecks
    /\ RecordCheck(identifier, checkRateLimit(rateLimitStore, identifier, now))
    /\ UNCHANGED <<now, nTicks, handlerVars, extractVars, textVars>>

-----------------------------------------------------------------------------
(* Transport calls of invocation p: the steps between two awaits *)

Outcome(c) == [kind |-> c.kind, result |-> c.result, err |-> c.err]

\* the history after a call was entered (and, for an early return, left)
Started(o, c) ==
    LET o1 == [o EXCEPT !.effects = Append(@, c.kind)]
    IN  IF c.at = "returned" THEN [o1 EXCEPT !.finished = Append(@, Outcome(c))]
        ELSE o1

\* the call moves to c; a call that returned or threw is recorded as finished
Settle(p, c) ==
    /\ call' = [call EXCEPT ![p] = c]
    /\ obs' = [obs EXCEPT ![p] =
                  IF c.at = "returned"
                  THEN [@ EXCEPT !.finished = Append(@, Outcome(c))]
                  ELSE @]
    /\ UNCHANGED <<pc, env, cleanedBody, rawEmail, rateVars, extractVars, textVars>>

\* the markup POST of sendTelegramMessage is answered by r
Respond(p, r) ==
    /\ call[p].at = "post"
    /\ Settle(p, OnResponse(call[p], r))

\* the plain-text POST of sendTelegramMessage is answered by r
RespondPlain(p, r) ==
    /\ call[p].at = "plainPost"
    /\ Settle(p, OnPlainResponse(call[p], r))

\* the backoff timer fires
Wake(p) ==
    /\ call[p].at = "sleep"
    /\ Settle(p, NextAttempt(call[p]))

\* the POST of sendTelegramDocument is answered by r
RespondDocument(p, r) ==
    /\ call[p].at = "docPost"
    /\ Settle(p, OnDocumentResponse(call[p], r))

(* A caller other than the email handler: one call at a time *)

Direct(p, c) ==
    /\ \/ pc[p] = "idle"
       \/ pc[p] = "direct" /\ call[p].at = "returned"
    /\ pc' = [pc EXCEPT ![p] = "direct"]
    /\ call' = [call EXCEPT ![p] = c]
    /\ obs' = [obs EXCEPT ![p] = Started(NoObs, c)]
    /\ UNCHANGED <<env, cleanedBody, rawEmail, rateVars, extractVars, textVars>>

CallSendMessage(p, text) == Direct(p, sendTelegramMessage("text", text))

CallSendDocument(p) == Direct(p, sendTelegramDocument(<<97>>))

-----------------------------------------------------------------------------
(* The email handler, worker.js lines 543-648 *)

Sentinel == "No readable content found"

\* lines 584-593, 603-605 and 636-638: the three texts start with a fixed
\* heading, so none of them is blank
metadataMessage == <<"*", "m">>

bodyMessage == <<"*", "b">>

errorMessage == <<"*", "e">>

\* what extractEmailContent and cleanText may hand to the handler
Bodies == {"", "Hello", Sentinel}

(* The raw payload: message.raw delivers bytes, streamToString (lines 36-58) *)
(* decodes them as UTF-8 and line 615 wraps the string in a Blob, which      *)
(* encodes it as UTF-8 again.                                                 *)

\* a letter, the two bytes of U+00E9, and a byte that no UTF-8 text contains;
\* with these bytes every well-formed sequence is one or two bytes long
PayloadBytes == {97, 195, 169, 255}

MaxPayloadLen == 2

Payloads == SeqsUpTo(PayloadBytes, MaxPayloadLen)

AsciiPayload == <<97>>

\* the lead byte of a two-byte sequence, and a continuation byte
IsLead2(b) == b \in 194..223

IsContinuation(b) == b \in 128..191

\* lines 42-50: new TextDecoder("utf-8") with decode(value, {stream: true}):
\* a malformed byte becomes U+FFFD; an incomplete sequence at the end of the
\* stream stays in the decoder, which is never flushed
RECURSIVE TextDecoder(_, _)
TextDecoder(bytes, i) ==
    IF i > Len(bytes) THEN <<>>
    ELSE LET b == bytes[i]
         IN  IF b < 128 THEN <<b>> \o TextDecoder(bytes, i + 1)
             ELSE IF IsLead2(b)
                  THEN IF i = Len(bytes) THEN <<>>
                       ELSE IF IsContinuation(bytes[i + 1])
                            THEN <<(b - 192) * 64 + (bytes[i + 1] - 128)>>
                                     \o TextDecoder(bytes, i + 2)
                            ELSE <<65533>> \o TextDecoder(bytes, i + 1)
                  ELSE <<65533>> \o TextDecoder(bytes, i + 1)

streamToString(bytes) == TextDecoder(bytes, 1)

\* the UTF-8 encoding of one code point (below U+10000)
EncodeCodePoint(cp) ==
    IF cp < 128 THEN <<cp>>
    ELSE IF cp < 2048 THEN <<192 + (cp \div 64), 128 + (cp % 64)>>
    ELSE <<224 + (cp \div 4096), 128 + ((cp \div 64) % 64), 128 + (cp % 64)>>

\* line 615: new Blob([rawEmail]), the bytes of the file that is sent
RECURSIVE Blob(_)
Blob(text) ==
    IF text = <<>> THEN <<>> ELSE EncodeCodePoint(Head(text)) \o Blob(Tail(text))

\* line 556: message.headers.get("from") || "Unknown sender"
Sender(from) == IF from = "" THEN "Unknown sender" ELSE from

Froms == {"a@x", ""}

\* line 602: cleanedBody && cleanedBody.trim() !== "No readable content found"
\* (cleanText returns trimmed text, so trim() changes none of Bodies)
ShouldSendBody(body) == body # "" /\ body # Sentinel

ConfigReject == [reason |-> "Service configuration error", message |-> NoErr]

RateReject == [reason |-> "Rate limit exceeded", message |-> NoErr]

\* a reject reason that drops the error's message
ProcessingRejectGeneric(e) == [reason |-> "Processing failed: ", message |-> NoErr]

\* line 632: `Processing failed: ${error.message}`
ProcessingReject(e) == [reason |-> "Processing failed: ", message |-> e]

\* message.setReject(reason)
Reject(o, reason) ==
    [o EXCEPT !.rejects = Append(@, reason), !.effects = Append(@, "reject")]

\* the handler enters a send function and awaits it
Await(p, c, o) ==
    /\ pc' = [pc EXCEPT ![p] = "sending"]
    /\ call' = [call EXCEPT ![p] = c]
    /\ obs' = [obs EXCEPT ![p] = Started(o, c)]

\* the handler returns
Finish(p, o) ==
    /\ pc' = [pc EXCEPT ![p] = "done"]
    /\ obs' = [obs EXCEPT ![p] = o]

\* lines 630-643: the outer catch block up to the await of the notification,
\* entered with the history o
Catch(p, e, o) ==
    Await(p, sendTelegramMessage("notify", errorMessage), Reject(o, ProcessingReject(e)))

\* a handler that throws on a bad configuration, and so reports it like any
\* other failure
OnConfigInvalidThrow(p) ==
    /\ Await(p, sendTelegramMessage("notify", errorMessage),
             Reject(NoObs, ProcessingReject(NoErr)))
    /\ UNCHANGED rateVars

\* lines 549-553: reject and return
OnConfigInvalid(p) ==
    /\ Finish(p, Reject(NoObs, ConfigReject))
    /\ call' = [call EXCEPT ![p] = NoCall]
    /\ UNCHANGED rateVars

\* a handler that forgets the return of line 569 and goes on to read the stream
OnRateLimitedNoReturn(p) ==
    /\ pc' = [pc EXCEPT ![p] = "reading"]
    /\ obs' = [obs EXCEPT ![p] =
                  [Reject(NoObs, RateReject) EXCEPT !.stream = "reading"]]
    /\ call' = [call EXCEPT ![p] = NoCall]

\* lines 566-570: reject and return
OnRateLimited(p) ==
    /\ Finish(p, Reject(NoObs, RateReject))
    /\ call' = [call EXCEPT ![p] = NoCall]

\* lines 543-573: from the handler's entry to its first await
Start(p, e, from, hasStream) ==
    /\ pc[p] \in {"idle", "done"}
    /\ env' = [env EXCEPT ![p] = e]
    /\ cleanedBody' = [cleanedBody EXCEPT ![p] = ""]
    /\ rawEmail' = [rawEmail EXCEPT ![p] = <<>>]
    /\ IF ~validateConfig(e).isValid
       THEN OnConfigInvalid(p)
       ELSE /\ nChecks < MaxChecks
            /\ LET r == checkRateLimit(rateLimitStore, Sender(from), now)
               IN  /\ RecordCheck(Sender(from), r)
                   /\ IF ~r.ok
                      THEN OnRateLimited(p)
                      ELSE /\ call' = [call EXCEPT ![p] = NoCall]
                           /\ IF hasStream
                              THEN /\ pc' = [pc EXCEPT ![p] = "reading"]
                                   /\ obs' = [obs EXCEPT ![p] =
                                                 [NoObs EXCEPT !.stream = "reading"]]
                              ELSE /\ pc' = [pc EXCEPT ![p] = "noStream"]
                                   /\ obs' = [obs EXCEPT ![p] =
                                                 [NoObs EXCEPT !.stream = "missing"]]
            /\ UNCHANGED <<now, nTicks>>
    /\ UNCHANGED <<extractVars, textVars>>

\* lines 37-39 and 573: message.raw is missing, streamToString has thrown
NoStream(p) ==
    /\ pc[p] = "noStream"
    /\ Catch(p, StreamError("Stream is null or undefined"), obs[p])
    /\ UNCHANGED <<env, cleanedBody, rawEmail, rateVars, extractVars, textVars>>

\* lines 573-599: the stream was read (or reading it failed); the content is
\* extracted and cleaned and the metadata message is sent
ReadDone(p, ok, body, bytes) ==
    /\ pc[p] = "reading"
    /\ IF ok
       THEN /\ rawEmail' = [rawEmail EXCEPT ![p] = streamToString(bytes)]
            /\ cleanedBody' = [cleanedBody EXCEPT ![p] = body]
            /\ Await(p, sendTelegramMessage("meta", metadataMessage),
                     [obs[p] EXCEPT !.stream = "read", !.raw = bytes])
       ELSE /\ Catch(p, StreamError("Failed to read email stream"),
                     [obs[p] EXCEPT !.stream = "failed"])
            /\ UNCHANGED <<cleanedBody, rawEmail>>
    /\ UNCHANGED <<env, rateVars, extractVars, textVars>>

\* a handler that goes on with the next message after a failed send
AfterSendIgnoringFailure(c, body) ==
    IF c.kind = "notify" THEN "return"
    ELSE IF c.kind = "meta" /\ ShouldSendBody(body) THEN "body"
    ELSE IF c.kind \in {"meta", "body"} THEN "doc"
    ELSE "return"

\* a handler whose notification is not wrapped in a try block of its own
AfterSendNotifyEscapes(c, body) ==
    IF c.kind = "notify" THEN (IF c.result = "threw" THEN "throw" ELSE "return")
    ELSE IF c.result = "threw" THEN "catch"
    ELSE IF c.kind = "meta" /\ ShouldSendBody(body) THEN "body"
    ELSE IF c.kind \in {"meta", "body"} THEN "doc"
    ELSE "return"

\* lines 595-647: what the handler does once the awaited send call c has
\* settled: the notification's outcome is only logged (lines 644-646), a
\* thrown error goes to the catch block, a returned value is not looked at
AfterSend(c, body) ==
    IF c.kind = "notify" THEN "return"
    ELSE IF c.result = "threw" THEN "catch"
    ELSE IF c.kind = "meta" /\ ShouldSendBody(body) THEN "body"
    ELSE IF c.kind \in {"meta", "body"} THEN "doc"
    ELSE "return"

Resume(p) ==
    /\ pc[p] = "sending"
    /\ call[p].at = "returned"
    /\ LET step == AfterSend(call[p], cleanedBody[p])
       IN  CASE step = "catch" -> Catch(p, call[p].err, obs[p])
             [] step = "body" -> Await(p, sendTelegramMessage("body", bodyMessage), obs[p])
             [] step = "doc" -> Await(p, sendTelegramDocument(Blob(rawEmail[p])),
                                      obs[p])
             [] step = "return" -> Finish(p, obs[p]) /\ UNCHANGED call
             [] OTHER -> /\ pc' = [pc EXCEPT ![p] = "threw"]
                         /\ UNCHANGED <<call, obs>>
    /\ UNCHANGED <<env, cleanedBody, rawEmail, rateVars, extractVars, textVars>>

-----------------------------------------------------------------------------
(* Specifications *)

\* the rate limiter on its own: the clock advances, identifiers are checked
RateNext ==
    \/ \E d \in Deltas : Tick(d)
    \/ \E i \in Ids : Check(i)

SpecRate == Init /\ [][RateNext]_vars

\* the transport client on its own, against every answer of the transport
MaxTextLen == 2

Texts == SeqsUpTo(WhiteSpace \cup {"h"}, MaxTextLen)

SendNext ==
    \/ \E text \in Texts : CallSendMessage(1, text)
    \/ CallSendDocument(1)
    \/ \E r \in Responses : Respond(1, r)
    \/ \E r \in Responses : RespondPlain(1, r)
    \/ \E r \in Responses : RespondDocument(1, r)
    \/ Wake(1)

SpecSend == Init /\ [][SendNext]_vars

\* validateConfig on every environment, as the handler's first step
ConfigNext == pc[1] = "idle" /\ \E e \in AllEnvs : Start(1, e, "a@x", TRUE)

SpecConfig == Init /\ [][ConfigNext]_vars

\* the email handler, one event after the other, all events of a run from one
\* sender (SpecRate interleaves the senders)
OneSender(from) == \A i \in Ids \ {Sender(from)} : admitted[i] = <<>>

HandlerStep(p) ==
    \/ NoStream(p)
    \/ \E ok \in BOOLEAN, body \in Bodies : ReadDone(p, ok, body, AsciiPayload)
    \/ \E r \in PipelineResponses : Respond(p, r)
    \/ \E r \in PlainResponses : RespondPlain(p, r)
    \/ \E r \in PipelineResponses : RespondDocument(p, r)
    \/ Wake(p)
    \/ Resume(p)

Next ==
    \/ \E e \in PipelineEnvs, from \in Froms, hasStream \in BOOLEAN :
           OneSender(from) /\ Start(1, e, from, hasStream)
    \/ HandlerStep(1)

Spec == Init /\ [][Next]_vars

\* every awaited promise settles and the event loop resumes its continuation
FairSpec == Spec /\ WF_vars(HandlerStep(1))

Running(p) == pc[p] \in {"noStream", "reading", "sending"}

\* invocations of one instance interleaved at their awaits: the stream read,
\* the POSTs and the backoff sleeps.  Between two awaits an invocation runs
\* alone (one JavaScript thread), so each action is one such stretch; the
\* stretch from the handler's entry to its first await holds the whole of
\* checkRateLimit, which has no await.
ConcResponses == {"ok", "netErr"}

\* the text POSTs of the invocation in slot 1 fail, so that it backs off;
\* those of the others succeed
ConcStep(p) ==
    \/ ReadDone(p, TRUE, "", AsciiPayload)
    \/ Respond(p, IF p = 1 THEN "netErr" ELSE "ok")
    \/ RespondDocument(p, "ok")
    \/ Wake(p)
    \/ Resume(p)

ConcNext ==
    \/ Tick(RATE_LIMIT_WINDOW - 1)
    \/ \E p \in Procs : Start(p, GoodEnv, "a@x", TRUE)
    \/ \E p \in Procs : ConcStep(p)

SpecConc == Init /\ [][ConcNext]_vars

\* one event with a valid configuration, over every payload and body
DeliverNext ==
    \/ pc[1] = "idle" /\ Start(1, GoodEnv, "a@x", TRUE)
    \/ \E body \in Bodies, bytes \in Payloads : ReadDone(1, TRUE, body, bytes)
    \/ \E r \in ConcResponses : Respond(1, r)
    \/ \E r \in {"ok", "e500"} : RespondDocument(1, r)
    \/ Wake(1)
    \/ Resume(1)

SpecDeliver == Init /\ [][DeliverNext]_vars

\* extractEmailContent applied to every message of Mails
Extract(mail) ==
    /\ rawInput' = mail
    /\ extracted' = extractEmailContent(mail)
    /\ UNCHANGED <<rateVars, handlerVars, textVars>>

ExtractNext == \E mail \in Mails : Extract(mail)

SpecExtract == Init /\ [][ExtractNext]_vars

\* the text functions, each applied once to every text of its set
MaxArgLen == 3

\* a letter, white space of each kind, and the characters of the patterns of
\* lines 278, 279, 280, 286, 288, 292 and 293
CleanChars == {"a", " ", "\r", "\n", "U+00C3", "U+00A9", "U+00E2", "U+00AF"}

\* a letter, a backslash and two of the special characters
EscapeChars == {"a", "\\", "_", "."}

MaxLengths == 1..(MaxArgLen - 1)

Repeat(c, n) == [i \in 1..n |-> c]

\* extracted bodies: short ones, the sentinel, and bodies at and just over
\* MAX_BODY_LENGTH made of a letter or of a special character
BodyTexts ==
    SeqsUpTo({"a", "."}, 1) \cup {SentinelText}
        \cup {Repeat(c, n) : c \in {"a", "."},
                             n \in {MAX_BODY_LENGTH, MAX_BODY_LENGTH + 1}}

Applied(fn, text, maxLength, result) ==
    /\ textFn = "none"
    /\ textFn' = fn
    /\ textArg' = text
    /\ textMax' = maxLength
    /\ textResult' = result
    /\ UNCHANGED <<rateVars, handlerVars, extractVars>>

ApplyCleanText(text, maxLength) ==
    Applied("cleanText", text, maxLength, cleanText(text, maxLength))

ApplyEscape(text) == Applied("escapeMarkdownV2", text, 0, escapeMarkdownV2(text))

\* lines 577 and 602-605 of the handler
PrepareBody(readableBody) ==
    Applied("bodyMessage", readableBody, MAX_BODY_LENGTH,
            bodyMessageText(readableBody))

TextNext ==
    \/ \E text \in SeqsUpTo(CleanChars, MaxArgLen), maxLength \in MaxLengths :
           ApplyCleanText(text, maxLength)
    \/ \E text \in SeqsUpTo(EscapeChars, MaxArgLen) : ApplyEscape(text)
    \/ \E readableBody \in BodyTexts : PrepareBody(readableBody)

SpecText == Init /\ [][TextNext]_vars


-----------------------------------------------------------------------------
(* Properties of the rate limiter *)

\* the admissions of the last checked identifier that precede the last check
PriorAdmissions ==
    LET h == admitted[lastCheck.id]
    IN  IF lastCheck.ok THEN SubSeq(h, 1, Len(h) - 1) ELSE h

CountSeq(s, P(_)) == Len(SelectSeq(s, P))

\* C1: with a non-decreasing clock, a check preceded by fewer than 10 admissions
\* of its identifier in the trailing 60000 ms is admitted (so the first 10
\* checks of a window are), a check preceded by 10 admissions that are all
\* less than 60000 ms old is rejected, and a check made more than 60000 ms
\* after every earlier admission is admitted again.
C1_SlidingWindow ==
    lastCheck.id \in Ids =>
        LET t == lastCheck.at
            prior == PriorAdmissions
            inside == CountSeq(prior, LAMBDA ts : t - ts < RATE_LIMIT_WINDOW)
            notAfter == CountSeq(prior, LAMBDA ts : t - ts <= RATE_LIMIT_WINDOW)
        IN  /\ notAfter < MAX_EMAILS_PER_WINDOW => lastCheck.ok
            /\ inside >= MAX_EMAILS_PER_WINDOW => ~lastCheck.ok
            /\ (\A k \in 1..Len(prior) : t - prior[k] > RATE_LIMIT_WINDOW)
                  => lastCheck.ok

\* 10 admissions at one time, an 11th check rejected, and a 12th check made
\* more than 60000 ms later admitted
C1_Witness ==
    /\ lastCheck.id = "a@x"
    /\ lastCheck.ok
    /\ nChecks = 12
    /\ admitted["Unknown sender"] = <<>>
    /\ Len(admitted["a@x"]) = 11
    /\ admitted["a@x"][10] = admitted["a@x"][1]
    /\ lastCheck.at - admitted["a@x"][10] > RATE_LIMIT_WINDOW

\* the sequence the Map holds for k (none for an absent key)
Stored(store, k) == IF k \in DOMAIN store THEN store[k] ELSE <<>>

\* C14 as stated: after a rejected check the table is what it was before it.
C14_RejectedLeavesTable ==
    (lastCheck.id \in Ids /\ ~lastCheck.ok) => rateLimitStore = lastCheck.before

\* C14 as amended: a rejected check adds nothing, leaves the checked
\* identifier's sequence as it was, and for every identifier keeps a suffix of
\* its sequence that holds every timestamp less than 60000 ms old; what it
\* removes is at least 60000 ms old.
C14_RejectedOnlyPurges ==
    (lastCheck.id \in Ids /\ ~lastCheck.ok) =>
        /\ DOMAIN rateLimitStore \subseteq DOMAIN lastCheck.before
        /\ Stored(rateLimitStore, lastCheck.id) = Stored(lastCheck.before, lastCheck.id)
        /\ \A k \in DOMAIN lastCheck.before :
               LET old == lastCheck.before[k]
                   new == Stored(rateLimitStore, k)
                   gone == Len(old) - Len(new)
               IN  /\ gone >= 0
                   /\ new = SubSeq(old, gone + 1, Len(old))
                   /\ \A i \in 1..gone : lastCheck.at - old[i] >= RATE_LIMIT_WINDOW

\* a rejected check of one sender has purged the other sender's expired entry
C14_Witness ==
    /\ lastCheck.id = "a@x"
    /\ ~lastCheck.ok
    /\ "Unknown sender" \in DOMAIN lastCheck.before
    /\ "Unknown sender" \notin DOMAIN rateLimitStore
    /\ rateLimitStore = [k \in {"a@x"} |-> lastCheck.before["a@x"]]

\* C15: after a check made at time t, admitted or rejected, and until the next
\* check, every stored timestamp lies in [t - 60000, t], no identifier is
\* mapped to an empty sequence and no identifier holds more than 10 timestamps.
C15_RateWindowInvariant ==
    lastCheck.id \in Ids =>
        \A k \in DOMAIN rateLimitStore :
            /\ Len(rateLimitStore[k]) > 0
            /\ Len(rateLimitStore[k]) <= MAX_EMAILS_PER_WINDOW
            /\ \A i \in 1..Len(rateLimitStore[k]) :
                   /\ rateLimitStore[k][i] >= lastCheck.at - RATE_LIMIT_WINDOW
                   /\ rateLimitStore[k][i] <= lastCheck.at

\* a 10th admission whose check emptied, and so deleted, the other sender's entry
C15_Witness ==
    /\ lastCheck.ok
    /\ Len(rateLimitStore[lastCheck.id]) = MAX_EMAILS_PER_WINDOW
    /\ DOMAIN lastCheck.before = Ids
    /\ DOMAIN rateLimitStore = {lastCheck.id}

\* C16: a check at time t removes from every sequence exactly the timestamps
\* below t - 60000, so a timestamp of exactly t - 60000 stays stored, and the
\* check is admitted iff fewer than 10 earlier timestamps of its identifier are
\* at or above t - 60000.
C16_BoundaryRetained ==
    lastCheck.id \in Ids =>
        LET t == lastCheck.at
            Retained(k) == SelectSeq(Stored(lastCheck.before, k),
                                     LAMBDA ts : ts >= t - RATE_LIMIT_WINDOW)
            AfterCheck(k) == IF k = lastCheck.id /\ lastCheck.ok
                             THEN Append(Retained(k), t)
                             ELSE Retained(k)
        IN  /\ lastCheck.ok <=> Len(Retained(lastCheck.id)) < MAX_EMAILS_PER_WINDOW
            /\ \A k \in Ids : Stored(rateLimitStore, k) = AfterCheck(k)

\* the timestamps of s that are less than 60000 ms old at time t
Fresh(s, t) == SelectSeq(s, LAMBDA ts : t - ts < RATE_LIMIT_WINDOW)

\* C17: however the invocations interleave, no 11 admissions of one sender
\* lie less than 60000 ms apart, every admission less than 60000 ms old at the
\* last check is still in the table (none is lost), the table holds nothing
\* that was not admitted, and a check is rejected only with 10 admissions
\* less than 60000 ms old.
C17_AtomicChecks ==
    \A id \in Ids :
        /\ \A i \in 1..(Len(admitted[id]) - MAX_EMAILS_PER_WINDOW) :
               admitted[id][i + MAX_EMAILS_PER_WINDOW] - admitted[id][i]
                   >= RATE_LIMIT_WINDOW
        /\ lastCheck.id \in Ids =>
               /\ Fresh(Stored(rateLimitStore, id), lastCheck.at)
                      = Fresh(admitted[id], lastCheck.at)
               /\ Len(Stored(rateLimitStore, id)) <= Len(admitted[id])
        /\ (lastCheck.id = id /\ ~lastCheck.ok) =>
               Len(Fresh(admitted[id], lastCheck.at)) = MAX_EMAILS_PER_WINDOW

\* one invocation sleeps in a backoff, holding one of the sender's 10
\* admissions, while another invocation's check is rejected
C17_Witness ==
    /\ pc[1] = "sending"
    /\ call[1].at = "sleep"
    /\ pc[2] = "done"
    /\ obs[2].rejects = <<RateReject>>
    /\ ~lastCheck.ok
    /\ Len(rateLimitStore["a@x"]) = MAX_EMAILS_PER_WINDOW

\* C24: rejected checks neither count against the limit nor prolong a lockout:
\* a check that follows a rejected check of the same sender is admitted as soon
\* as fewer than 10 of the sender's admissions are less than 60000 ms old (so
\* at the first check after the oldest of 10 admissions has left the window),
\* and a rejected check leaves the sender's stored timestamps as they were.
C24_RejectionsDoNotCount ==
    [][ nChecks' = nChecks + 1 =>
            /\ (/\ lastCheck.id \in Ids
                /\ ~lastCheck.ok
                /\ lastCheck'.id = lastCheck.id
                /\ Len(Fresh(admitted[lastCheck.id], lastCheck'.at))
                       < MAX_EMAILS_PER_WINDOW)
                  => lastCheck'.ok
            /\ ~lastCheck'.ok =>
                  Stored(rateLimitStore', lastCheck'.id)
                      = Stored(rateLimitStore, lastCheck'.id) ]_vars

\* 10 admissions, the first one 1 ms before the other nine, then a rejected
\* check, then a check 60000 ms after the first admission, which is admitted
\* while nine admissions are still less than 60000 ms old
C24_Witness ==
    /\ lastCheck.id = "a@x"
    /\ lastCheck.ok
    /\ nChecks = 12
    /\ Len(admitted["a@x"]) = 11
    /\ Len(lastCheck.before["a@x"]) = MAX_EMAILS_PER_WINDOW
    /\ Len(Fresh(lastCheck.before["a@x"], lastCheck.at)) = MAX_EMAILS_PER_WINDOW - 1

-----------------------------------------------------------------------------
(* Properties of the transport client (SpecSend) *)

MarkupPosts(t) == CountSeq(t, LAMBDA e : e.ev = "post" /\ e.markup)

\* C2: a response carrying error_code 404 or 403 ends the call at once: no
\* POST and no backoff sleep follows it, and the call has thrown.
C2_FailsImmediately ==
    LET t == call[1].trace
    IN  \A i \in 1..Len(t) :
            (t[i].ev = "resp" /\ ErrorCode(t[i].r) \in {404, 403})
                => (i = Len(t) /\ call[1].result = "threw")

\* C9: a call with non-empty text makes at most 3 markup-enabled POSTs, returns
\* true as soon as a POST succeeds (and only then), never returns false, and
\* once its third attempt has failed it throws an error that carries a failure
\* of that third attempt.
C9_ThreeAttempts ==
    LET c == call[1]
        t == c.trace
    IN  (c.kind = "text" /\ ~IsBlank(c.text)) =>
            /\ MarkupPosts(t) <= 3
            /\ \A i \in 1..Len(t) :
                   (t[i].ev = "resp" /\ t[i].r = "ok")
                       => (i = Len(t) /\ c.result = "true")
            /\ c.result = "true" => (t[Len(t)].ev = "resp" /\ HttpOk(t[Len(t)].r))
            /\ c.result # "false"
            /\ (MarkupPosts(t) = 3 /\ t[Len(t)].ev # "post" /\ c.result # "true")
                   => c.result = "threw"
            /\ c.result = "threw" =>
                   /\ MarkupPosts(t) = 3
                   /\ c.err.type # "none"
                   /\ \E i \in 1..Len(t) :
                          /\ t[i].ev = "resp"
                          /\ t[i].attempt = 3
                          /\ t[i].r = c.err.of

\* three failed attempts, the last error thrown
C9_Witness ==
    /\ call[1].kind = "text"
    /\ call[1].result = "threw"
    /\ call[1].err = FailedAfter("e500")
    /\ MarkupPosts(call[1].trace) = 3

\* C10: a markup POST answered with error_code 400 and a description naming
\* parse_mode is followed at once, in the same attempt and before any sleep, by
\* exactly one POST without markup; no other POST of the call is without
\* markup; and a fallback POST that succeeds is the call's last event, with
\* true returned.
C10_PlainFallback ==
    LET c == call[1]
        t == c.trace
    IN  c.kind = "text" =>
            /\ \A i \in 2..Len(t) :
                   ( /\ t[i].ev = "resp"
                     /\ t[i - 1].ev = "post" /\ t[i - 1].markup
                     /\ ErrorCode(t[i].r) = 400 /\ MentionsParseMode(t[i].r) )
                   => /\ i < Len(t)
                      /\ t[i + 1] = PostEv(FALSE, t[i].attempt)
                      /\ CountSeq(t, LAMBDA e : /\ e.ev = "post" /\ ~e.markup
                                               /\ e.attempt = t[i].attempt) = 1
            /\ \A j \in 1..Len(t) :
                   (t[j].ev = "post" /\ ~t[j].markup)
                   => /\ j > 2
                      /\ t[j - 1].ev = "resp" /\ t[j - 1].r = "e400parse"
                      /\ t[j - 2].ev = "post" /\ t[j - 2].markup
                      /\ (j < Len(t) /\ HttpOk(t[j + 1].r))
                             => (j + 1 = Len(t) /\ c.result = "true")

\* the second attempt's markup is rejected and its plain-text POST succeeds
C10_Witness ==
    /\ call[1].kind = "text"
    /\ call[1].result = "true"
    /\ call[1].attempt = 2
    /\ Len(call[1].trace) >= 2
    /\ call[1].trace[Len(call[1].trace) - 1] = PostEv(FALSE, 2)

\* C11: every backoff sleep follows a failed answer of attempt 1 or 2, lasts
\* 2^attempt seconds (2000 ms, then 4000 ms), is taken once per attempt and is
\* followed by the markup POST of the next attempt; every markup POST after
\* the first is immediately preceded by that sleep; a failed answer of attempt
\* 1 or 2 that starts no fallback is followed by the sleep; and no sleep
\* belongs to the third attempt.
C11_Backoff ==
    LET c == call[1]
        t == c.trace
    IN  c.kind = "text" =>
            /\ \A i \in 1..Len(t) :
                   t[i].ev = "sleep" =>
                       /\ t[i].attempt \in {1, 2}
                       /\ t[i].ms = (IF t[i].attempt = 1 THEN 2000 ELSE 4000)
                       /\ i > 1 /\ t[i - 1].ev = "resp"
                       /\ t[i - 1].attempt = t[i].attempt
                       /\ i < Len(t) => t[i + 1] = PostEv(TRUE, t[i].attempt + 1)
                       /\ CountSeq(t, LAMBDA e : /\ e.ev = "sleep"
                                                /\ e.attempt = t[i].attempt) = 1
            /\ \A i \in 1..Len(t) :
                   (t[i].ev = "post" /\ t[i].markup /\ t[i].attempt > 1) =>
                       /\ i > 1
                       /\ t[i - 1].ev = "sleep"
                       /\ t[i - 1].attempt = t[i].attempt - 1
            /\ \A i \in 1..Len(t) :
                   (t[i].ev = "resp" /\ t[i].attempt < 3 /\ i = Len(t))
                       => c.result = "true"
            /\ c.at = "sleep" => t[Len(t)].ev = "sleep"

\* both backoffs were taken and the third attempt has started
C11_Witness ==
    /\ call[1].kind = "text"
    /\ call[1].attempt = 3
    /\ Len(call[1].trace) = 7
    /\ call[1].trace[3] = SleepEv(2000, 1)
    /\ call[1].trace[6] = SleepEv(4000, 2)

\* C12: a sendTelegramDocument call makes exactly one POST and never sleeps;
\* once the POST is answered the call is over: it has returned true if the
\* answer was a success status, and has thrown if the answer was an error
\* status or the request itself failed; it returns true in no other case and
\* never returns false.
C12_DocumentSingleAttempt ==
    LET c == call[1]
        t == c.trace
    IN  c.kind = "doc" =>
            /\ CountSeq(t, LAMBDA e : e.ev = "post") = 1
            /\ CountSeq(t, LAMBDA e : e.ev = "sleep") = 0
            /\ t[1] = PostEv(FALSE, 1)
            /\ Len(t) <= 2
            /\ Len(t) = 1 => c.result = "pending"
            /\ Len(t) = 2 =>
                   /\ t[2].ev = "resp"
                   /\ c.at = "returned"
                   /\ HttpOk(t[2].r) => c.result = "true"
                   /\ ~HttpOk(t[2].r) => (c.result = "threw" /\ c.err.type # "none"
                                          /\ c.err.of = t[2].r)

\* the single POST was answered with an error and the call threw
C12_Witness ==
    /\ call[1].kind = "doc"
    /\ call[1].result = "threw"
    /\ call[1].err = ApiError("e500")
    /\ Len(call[1].trace) = 2

\* C13: a sendTelegramMessage call whose text is empty or consists of white
\* space only has returned false as soon as it was made, with no POST and no
\* sleep; no other call returns false.
C13_BlankTextReturnsFalse ==
    LET c == call[1]
    IN  c.kind = "text" =>
            /\ (c.text = <<>> \/ \A i \in 1..Len(c.text) : c.text[i] \in {" ", "\n"})
                   => (c.at = "returned" /\ c.result = "false" /\ c.trace = <<>>)
            /\ c.result = "false" => c.trace = <<>>

\* a call with a text of two white-space characters has returned false
C13_Witness ==
    /\ call[1].kind = "text"
    /\ call[1].text = <<" ", "\n">>
    /\ call[1].result = "false"
    /\ call[1].trace = <<>>

\* C26: within one sendTelegramMessage call, no POST follows a response with
\* an HTTP success status, whatever the body of that response.
C26_NoPostAfterSuccess ==
    LET t == call[1].trace
    IN  call[1].kind = "text" =>
            \A i \in 1..Len(t) : \A j \in (i + 1)..Len(t) :
                (t[i].ev = "resp" /\ HttpOk(t[i].r)) => t[j].ev # "post"

-----------------------------------------------------------------------------
(* Properties of validateConfig (SpecConfig) *)

Accepted(p) == pc[p] # "idle" /\ obs[p].rejects # <<ConfigReject>>

\* digits, a colon, then one or more of [A-Za-z0-9_-]
TokenShape(t) ==
    \E k \in 1..Len(t) :
        /\ \A i \in 1..k : t[i] \in Digits
        /\ k + 2 <= Len(t)
        /\ t[k + 1] = ":"
        /\ \A i \in (k + 2)..Len(t) : t[i] \in TokenTail

\* an `@name` or a numeric id (digits after an optional minus sign)
ChatShape(c) ==
    \/ /\ Len(c) >= 2
       /\ c[1] = "@"
       /\ \A i \in 2..Len(c) : c[i] \in {"7", "k"}
    \/ LET n == IF c # <<>> /\ c[1] = "-" THEN Tail(c) ELSE c
       IN  n # <<>> /\ \A i \in 1..Len(n) : n[i] \in Digits

-----------------------------------------------------------------------------
(* Properties of the email handler (Spec, FairSpec) *)

IsPrefix(a, b) == Len(a) <= Len(b) /\ \A i \in 1..Len(a) : a[i] = b[i]

Kinds(s) == [i \in 1..Len(s) |-> s[i].kind]

\* the messages of one event, in order
Expected(p) ==
    IF ShouldSendBody(cleanedBody[p]) THEN <<"meta", "body", "doc">>
    ELSE <<"meta", "doc">>

\* the normal sends the handler entered, and those that returned true
Entered(p) == SelectSeq(obs[p].effects, LAMBDA k : k \in {"meta", "body", "doc"})

Delivered(p) ==
    Kinds(SelectSeq(obs[p].finished,
                    LAMBDA f : f.kind # "notify" /\ f.result = "true"))

FailedSends(p) ==
    SelectSeq(obs[p].finished, LAMBDA f : f.kind # "notify" /\ f.result = "threw")

Notifications(p) == CountSeq(obs[p].effects, LAMBDA k : k = "notify")

\* C3: the sends that succeeded and the sends that were entered are both
\* prefixes of [metadata, body (when applicable), attachment], and a send is
\* entered only when every earlier one succeeded, so none follows a failure.
C3_OrderedPrefix ==
    /\ IsPrefix(Delivered(1), Expected(1))
    /\ IsPrefix(Entered(1), Expected(1))
    /\ Len(Entered(1)) <= Len(Delivered(1)) + 1

\* metadata and body were delivered, the attachment failed, nothing followed
C3_Witness ==
    /\ pc[1] = "done"
    /\ Delivered(1) = <<"meta", "body">>
    /\ Entered(1) = <<"meta", "body", "doc">>

\* the error the catch block was entered with
Cause(p) ==
    IF FailedSends(p) # <<>> THEN FailedSends(p)[1].err
    ELSE IF obs[p].stream = "missing" THEN StreamError("Stream is null or undefined")
    ELSE StreamError("Failed to read email stream")

\* C4: once the stream or a send has failed and the handler has resumed, the
\* event has been rejected exactly once, with 'Processing failed: ' and the
\* error's description, and after that exactly one notification was started;
\* whatever becomes of the notification, the rejects stay as they are and the
\* handler does not throw.
C4_RejectThenNotify ==
    LET o == obs[1]
        handled == /\ pc[1] # "noStream"
                   /\ ~(pc[1] = "sending" /\ call[1].kind # "notify")
    IN  /\ pc[1] # "threw"
        /\ Notifications(1) <= 1
        /\ ((FailedSends(1) # <<>> \/ o.stream \in {"missing", "failed"}) /\ handled)
               => Notifications(1) = 1
        /\ Notifications(1) = 1 =>
               /\ o.rejects = <<[reason |-> "Processing failed: ",
                                 message |-> Cause(1)]>>
               /\ o.effects = Entered(1) \o <<"reject", "notify">>
               /\ FailedSends(1) # <<>> \/ o.stream \in {"missing", "failed"}

\* the attachment failed, the event was rejected, the notification threw
C4_Witness ==
    /\ pc[1] = "done"
    /\ obs[1].rejects = <<[reason |-> "Processing failed: ",
                          message |-> ApiError("e500")]>>
    /\ call[1].kind = "notify"
    /\ call[1].result = "threw"

\* C5: the handler never throws and never rejects twice; every invocation
\* that has started reaches its end; and at its end either nothing was
\* rejected and metadata, body (when applicable) and attachment were all
\* delivered, or the event was rejected exactly once.
C5_EndsDeliveredOrRejected ==
    /\ [](pc[1] # "threw" /\ Len(obs[1].rejects) <= 1)
    /\ [](pc[1] = "done" =>
             \/ obs[1].rejects = <<>> /\ Delivered(1) = Expected(1)
             \/ Len(obs[1].rejects) = 1 /\ Delivered(1) # Expected(1))
    /\ (Running(1) ~> (pc[1] = "done"))

\* an event delivered in full, its metadata only at the third attempt
C5_Witness ==
    /\ pc[1] = "done"
    /\ obs[1].rejects = <<>>
    /\ Delivered(1) = <<"meta", "body", "doc">>

\* C18: an invocation that has ended without a reject has delivered exactly
\* one metadata message and exactly one attachment, the attachment's bytes are
\* the bytes the raw stream delivered, and it has delivered one body message
\* if the body is non-empty and not the sentinel, and none otherwise.
C18_ExactlyOnceUnmodified ==
    (pc[1] = "done" /\ obs[1].rejects = <<>>) =>
        /\ CountSeq(Delivered(1), LAMBDA k : k = "meta") = 1
        /\ CountSeq(Delivered(1), LAMBDA k : k = "doc") = 1
        /\ CountSeq(Delivered(1), LAMBDA k : k = "body")
               = (IF ShouldSendBody(cleanedBody[1]) THEN 1 ELSE 0)
        /\ call[1].kind = "doc"
        /\ call[1].text = obs[1].raw

\* C25: from the step that admits an event, through the stream read, every
\* send and the catch block, to the end of the invocation, the sender's stored
\* sequence is the one the check left: the admissions that were in the window
\* followed by the check's own timestamp.  So an event rejected with a
\* processing failure has still used up one admission.
C25_AdmissionSurvivesFailure ==
    obs[1].stream # "none" =>
        /\ lastCheck.ok
        /\ Stored(rateLimitStore, lastCheck.id)
               = Append(Fresh(Stored(lastCheck.before, lastCheck.id), lastCheck.at),
                        lastCheck.at)
        /\ Len(Stored(rateLimitStore, lastCheck.id)) = Len(admitted[lastCheck.id])

\* the second event of a sender has ended rejected with a processing failure
\* and the table holds two admissions of the sender
C25_Witness ==
    /\ pc[1] = "done"
    /\ Len(obs[1].rejects) = 1
    /\ obs[1].rejects[1].reason = "Processing failed: "
    /\ obs[1].stream = "read"
    /\ Len(Stored(rateLimitStore, "a@x")) = 2

NoObsButReject(reason) ==
    [rejects |-> <<reason>>, effects |-> <<"reject">>, finished |-> <<>>,
     stream |-> "none", raw |-> <<>>]

\* C6: a step in which the rate limiter rejects the sender ends the invocation
\* there: the event is rejected with the rate-limit reason and nothing else,
\* no send call is entered or pending, and the stream is untouched.
C6_RateLimitedOnlyRejects ==
    [][ (nChecks' = nChecks + 1 /\ ~lastCheck'.ok)
            => /\ pc'[1] = "done"
               /\ obs'[1] = NoObsButReject(RateReject)
               /\ call'[1] = NoCall ]_vars

\* the 11th event of a sender whose 10 earlier events were admitted
C6_Witness ==
    /\ pc[1] = "done"
    /\ obs[1].rejects = <<RateReject>>
    /\ ~lastCheck.ok
    /\ nChecks = 11
    /\ Len(admitted[lastCheck.id]) = 10

\* C7: a step that starts an invocation whose configuration does not validate
\* ends it there: the event is rejected with the configuration reason and
\* nothing else, no send call is entered or pending, the stream is untouched,
\* and the rate-limit table and its history are what they were.
C7_ConfigInvalidOnlyRejects ==
    [][ (pc'[1] # "idle" /\ ~validateConfig(env'[1]).isValid)
            => /\ pc'[1] = "done"
               /\ obs'[1] = NoObsButReject(ConfigReject)
               /\ call'[1] = NoCall
               /\ rateLimitStore' = rateLimitStore
               /\ admitted' = admitted
               /\ nChecks' = nChecks ]_vars

\* a bad configuration met while the table holds admissions
C7_Witness ==
    /\ pc[1] = "done"
    /\ obs[1].rejects = <<ConfigReject>>
    /\ DOMAIN rateLimitStore # {}

-----------------------------------------------------------------------------
(* Properties of the extraction (SpecExtract) *)

\* the content-type a piece declares: the value of its first Content-Type
\* header, however the header name is spelled ("" when it has none)
DeclaredType(piece) ==
    LET i == FirstContentType(piece.headers, 1)
    IN  IF i = 0 THEN "" ELSE piece.headers[i].value

\* text/plain = 3, text/html = 2, other text/* = 1
TypeScore(piece) ==
    CASE DeclaredType(piece) = "text/plain" -> 3
      [] DeclaredType(piece) = "text/html" -> 2
      [] DeclaredType(piece) \in TextTypes -> 1
      [] OTHER -> 0

\* C19: for a message with a boundary, the result is the content of the
\* earliest piece whose content-type has the highest score above 0, so of a
\* text/plain piece whenever there is one, and it is the sentinel with
\* text/plain when no piece scores above 0.
C19_EarliestBestPart ==
    HasBoundary(rawInput) =>
        LET parts == Split(rawInput)
            top == CHOOSE m \in 0..3 :
                       /\ \A i \in 1..Len(parts) : TypeScore(parts[i]) <= m
                       /\ m > 0 => \E i \in 1..Len(parts) : TypeScore(parts[i]) = m
        IN  IF top = 0 THEN extracted = PlainResult(Sentinel)
            ELSE LET k == CHOOSE i \in 1..Len(parts) :
                              /\ TypeScore(parts[i]) = top
                              /\ \A j \in 1..(i - 1) : TypeScore(parts[j]) < top
                 IN  extracted = extractPartContent(parts[k])

\* the content-types declared anywhere in the message
DeclaredTypes(mail) ==
    {DeclaredType(Split(mail)[i]) : i \in 1..Len(Split(mail))} \ {""}

\* C20: the contentType of the result is the bare type/subtype value of one
\* of the message's Content-Type headers, or text/plain.
C20_DeclaredTypeOrDefault ==
    /\ extracted.contentType.runOn = <<>>
    /\ extracted.contentType.type \in DeclaredTypes(rawInput) \cup {"text/plain"}

-----------------------------------------------------------------------------
(* Properties of the text functions (SpecText) *)

IsSuffix(suffix, s) ==
    /\ Len(suffix) <= Len(s)
    /\ SubSeq(s, Len(s) - Len(suffix) + 1, Len(s)) = suffix

\* C21 as stated: for an input longer than maxLength the output is maxLength
\* characters followed by the marker.
C21_LongInputTruncated ==
    (textFn = "cleanText" /\ Len(textArg) > textMax) =>
        /\ Len(textResult) = textMax + Len(TruncationMarker)
        /\ IsSuffix(TruncationMarker, textResult)

\* C21 as amended: the length that decides is that of the normalized text.
\* If the normalized text is longer than maxLength, the output is its first
\* maxLength characters followed by the marker; otherwise the output is the
\* normalized text, without marker; an input of at most maxLength characters
\* is never truncated, and the output never has more than maxLength
\* characters before the marker.
C21_NormalizedTruncated ==
    textFn = "cleanText" =>
        LET normalized == IF textArg = <<>> THEN <<>> ELSE Cleaned(textArg)
        IN  /\ Len(normalized) <= Len(textArg)
            /\ Len(normalized) > textMax =>
                   textResult = SubSeq(normalized, 1, textMax) \o TruncationMarker
            /\ Len(normalized) <= textMax => textResult = normalized
            /\ \/ Len(textResult) <= textMax
               \/ /\ IsSuffix(TruncationMarker, textResult)
                  /\ Len(textResult) = textMax + Len(TruncationMarker)

\* a text of three letters cut to two letters and the marker
C21_Witness ==
    /\ textFn = "cleanText"
    /\ textArg = <<"a", "a", "a">>
    /\ textMax = 2
    /\ textResult = <<"a", "a">> \o TruncationMarker

\* the length of the run of backslashes that ends just before position i
BackslashRun(s, i) ==
    CHOOSE k \in 0..(i - 1) :
        /\ \A j \in (i - k)..(i - 1) : s[j] = "\\"
        /\ (i - k - 1 >= 1) => s[i - k - 1] # "\\"

IsSpecial(c) == \E n \in 1..Len(specialChars) : specialChars[n] = c

\* C22: in the output of escapeMarkdownV2 every special character is escaped:
\* the run of backslashes just before it has odd length.
C22_AllSpecialsEscaped ==
    textFn = "escapeMarkdownV2" =>
        \A i \in 1..Len(textResult) :
            IsSpecial(textResult[i]) => BackslashRun(textResult, i) % 2 = 1

\* C23: the text of the body message has at most 4096 characters.
C23_BodyMessageWithinLimit ==
    textFn = "bodyMessage" => Len(textResult) <= TELEGRAM_MESSAGE_LIMIT

=============================================================================
